---- MODULE Spec2Model ----
(***************************************************************************)
(* Two programs of the repository, each as a state machine:                *)
(*                                                                         *)
(*   - the vulkano_shader! procedural macro of vulkano-shaders/src/lib.rs: *)
(*     MacroInput::parse (the option parser) followed by the expansion     *)
(*     (source loading, codegen::compile, codegen::reflect);               *)
(*   - the render loop of examples/src/bin/triangle.rs.                    *)
(*                                                                         *)
(* SpecMacro runs the first, SpecTriangle the second.  The variables of    *)
(* the program that is not running keep their initial values.              *)
(***************************************************************************)
EXTENDS Integers, Sequences, FiniteSets, TLC

\* Longest field list given to vulkano_shader!.
MaxFields == 4
\* Passes through the render loop that are followed.
MaxIterations == 4
\* Images of the swapchain (caps.min_image_count, triangle.rs:75).
NumImages == 2

VARIABLES
    \* ---- vulkano_shader! ----
    fields,         \* the macro's input: the field list, never modified
    pos,            \* index of the field the parser is at (1-based)
    mod_ident,      \* Option<Ident>        (lib.rs:196)
    shader_kind,    \* Option<ShaderKind>   (lib.rs:197)
    source_kind,    \* Option<SourceKind>   (lib.rs:198)
    dump,           \* Option<bool>         (lib.rs:195)
    source_code,    \* Option<String>, the GLSL given to codegen::compile
    pc,             \* where the expansion is
    parse_result,   \* "Pending", "Ok" (a MacroInput), "Err" (syn::Error), "Panic"
    message,        \* the panic or error message, "" while there is none
    compile_result, \* "NotCalled", "Ok", "Err"
    reflect_result, \* "NotCalled", "Ok", "Err", "Dumped"
    output,         \* what vulkano_shader returned: "none", "generated", "compile_error"
    \* ---- triangle ----
    tpc,                 \* where main is
    iteration,           \* number of the current pass through loop
    recreate_swapchain,  \* triangle.rs:140
    framebuffers,        \* Option<Vec<Framebuffer>>, as Option<swapchain generation>
    swapchain,           \* generation of the swapchain in use
    image_num,           \* image acquired in this iteration
    previous_frame_end,  \* the future chain, oldest operation first
    calls                \* the fallible native calls made so far, in order

macroVars == <<fields, pos, mod_ident, shader_kind, source_kind, dump, source_code, pc,
               parse_result, message, compile_result, reflect_result, output>>
triangleVars == <<tpc, iteration, recreate_swapchain, framebuffers, swapchain,
                  image_num, previous_frame_end, calls>>
vars == <<macroVars, triangleVars>>

\* Option<T>: None, or Some(v).
None == <<>>
Some(v) == <<v>>
IsSome(o) == o # <<>>
Unwrap(o) == o[1]

(***************************************************************************)
(* The macro's input.  A field is name : value ,; each part may be       *)
(* malformed: the name token may not be an identifier, the colon may be    *)
(* missing, the value may be a token of any kind, the comma may be         *)
(* missing.                                                                *)
(***************************************************************************)
Field(name, kind, val) ==
    [ident |-> TRUE, name |-> name, colon |-> TRUE,
     kind |-> kind, val |-> val, comma |-> TRUE]

NoIdent(f) == [f EXCEPT !.ident = FALSE]
NoColon(f) == [f EXCEPT !.colon = FALSE]
NoComma(f) == [f EXCEPT !.comma = FALSE]

\* The fields the inputs of SpecMacro are made of.
MacroAlphabet ==
    {Field("mod_name", "ident", "vs"), Field("mod_name", "str", "vs")}
    \cup {Field("ty", "str", t) : t \in {"vertex", "compute", "Vertex"}}
    \cup {Field("src", "str", "glsl"), Field("path", "str", "a.glsl")}
    \cup {Field("dump", "bool", "true"), Field("dump", "bool", "false")}
    \cup {Field("foo", "str", "x")}
    \cup {NoIdent(Field("42", "str", "x"))}
    \cup {NoColon(Field("src", "str", "glsl"))}
    \cup {NoComma(Field("path", "str", "a.glsl"))}

\* The fields the inputs of SpecTy are made of: every value of ty, fewer
\* kinds of the other fields.
TyStrings == {"vertex", "fragment", "geometry", "tess_ctrl", "tess_eval",
              "compute", "Vertex"}

TyAlphabet ==
    {Field("mod_name", "ident", "vs")}
    \cup {Field("ty", "str", t) : t \in TyStrings}
    \cup {Field("ty", "ident", "vertex")}
    \cup {Field("src", "str", "glsl"), Field("path", "str", "a.glsl")}
    \cup {Field("dump", "bool", "true")}
    \cup {Field("foo", "str", "x")}
    \cup {NoColon(Field("ty", "str", "vertex"))}

InputsOver(alphabet) == UNION {[1..n -> alphabet] : n \in 0..MaxFields}

\* The arms of match name.to_string().as_ref().
OptionNames == {"mod_name", "ty", "src", "path", "dump"}

\* match ty.value().as_ref(): the ShaderKind, or "panic" for the _ arm.
ShaderKindOfMutant(s) ==
    CASE s \in {"vertex", "Vertex"} -> "Vertex"
      [] s = "fragment"  -> "Fragment"
      [] s = "geometry"  -> "Geometry"
      [] s = "tess_ctrl" -> "TessControl"
      [] s = "tess_eval" -> "TessEvaluation"
      [] s = "compute"   -> "Compute"
      [] OTHER           -> "panic"

ShaderKindOf(s) ==
    CASE s = "vertex"    -> "Vertex"
      [] s = "fragment"  -> "Fragment"
      [] s = "geometry"  -> "Geometry"
      [] s = "tess_ctrl" -> "TessControl"
      [] s = "tess_eval" -> "TessEvaluation"
      [] s = "compute"   -> "Compute"
      [] OTHER           -> "panic"

\* The messages, without the backquotes of the source.
UnexpectedShaderType ==
    "Unexpected shader type, valid values: vertex, fragment, geometry, tess_ctrl, tess_eval, compute"
OnlyOneMod == "Only one mod can be defined"
OnlyOneTy == "Only one ty can be defined"
OnlyOneSource == "Only one src or path can be defined"
OnlyOneDump == "Only one dump can be defined"
UnknownFieldName(name) == "Unknown field name: " \o name
PleaseProvideTy == "Please provide a shader type e.g. ty: vertex"
PleaseProvideSource == "Please provide a source e.g. path: foo.glsl or src: glsl source code here ..."
PleaseProvideMod == "Please provide a mod e.g. mod: fs "

\* A future is the sequence of the operations it chains, oldest first.
\* now(device), triangle.rs:141:
Now == <<[op |-> "now", arg |-> 0]>>

\* ---- initial states ----
InitTriangle ==
    /\ tpc = "top"
    /\ iteration = 1
    /\ recreate_swapchain = FALSE
    /\ framebuffers = None
    /\ swapchain = 0
    /\ image_num = 0
    /\ previous_frame_end = Now
    /\ calls = <<>>

InitMacroState ==
    /\ pos = 1
    /\ mod_ident = None
    /\ shader_kind = None
    /\ source_kind = None
    /\ dump = None
    /\ source_code = None
    /\ pc = "parse"
    /\ parse_result = "Pending"
    /\ message = ""
    /\ compile_result = "NotCalled"
    /\ reflect_result = "NotCalled"
    /\ output = "none"

InitMacro ==
    /\ fields \in InputsOver(MacroAlphabet)
    /\ InitMacroState
    /\ InitTriangle

InitTy ==
    /\ fields \in InputsOver(TyAlphabet)
    /\ InitMacroState
    /\ InitTriangle

(***************************************************************************)
(* MacroInput::parse, lib.rs:194-279.                                      *)
(***************************************************************************)
Cur == fields[pos]

\* while !input.is_empty() holds and the loop body starts.
InLoop == pc = "parse" /\ pos <= Len(fields)

\* name and the colon parsed (lib.rs:201-202) and name is n.
AtField(n) == InLoop /\ Cur.ident /\ Cur.colon /\ Cur.name = n

\* panic!(m): the expansion ends there.
Panic(m) ==
    /\ pc' = "panicked"
    /\ parse_result' = "Panic"
    /\ message' = m
    /\ UNCHANGED <<pos, output>>

\* ? on a syn::Error: parse returns Err and parse_macro_input! (lib.rs:284)
\* returns the error's compile_error! tokens from vulkano_shader.
SynErr(m) ==
    /\ pc' = "returned"
    /\ parse_result' = "Err"
    /\ message' = m
    /\ output' = "compile_error"
    /\ UNCHANGED pos

\* lib.rs:256-258: a comma is required unless the input ends here.
Separator ==
    IF Cur.comma \/ pos = Len(fields)
    THEN /\ pos' = pos + 1
         /\ UNCHANGED <<pc, parse_result, message, output>>
    ELSE SynErr("expected ,")

\* lib.rs:201-202: the name is no identifier, or no colon follows it.
ParseSyntaxError ==
    /\ InLoop
    /\ ~(Cur.ident /\ Cur.colon)
    /\ SynErr(IF ~Cur.ident THEN "expected identifier" ELSE "expected :")
    /\ UNCHANGED <<mod_ident, shader_kind, source_kind, dump, source_code>>
    /\ UNCHANGED <<fields, compile_result, reflect_result, triangleVars>>

\* lib.rs:205-212
ModDefined == IsSome(mod_ident)

ParseModName ==
    /\ AtField("mod_name")
    /\ IF ModDefined
       THEN Panic(OnlyOneMod) /\ UNCHANGED mod_ident
       ELSE IF Cur.kind # "ident"
       THEN SynErr("expected identifier") /\ UNCHANGED mod_ident
       ELSE mod_ident' = Some(Cur.val) /\ Separator
    /\ UNCHANGED <<shader_kind, source_kind, dump, source_code>>
    /\ UNCHANGED <<fields, compile_result, reflect_result, triangleVars>>

\* lib.rs:213-229
TyDefined == IsSome(shader_kind)

ParseTy ==
    /\ AtField("ty")
    /\ IF TyDefined
       THEN Panic(OnlyOneTy) /\ UNCHANGED shader_kind
       ELSE IF Cur.kind # "str"
       THEN SynErr("expected string literal") /\ UNCHANGED shader_kind
       ELSE IF ShaderKindOf(Cur.val) = "panic"
       THEN Panic(UnexpectedShaderType) /\ UNCHANGED shader_kind
       ELSE shader_kind' = Some(ShaderKindOf(Cur.val)) /\ Separator
    /\ UNCHANGED <<mod_ident, source_kind, dump, source_code>>
    /\ UNCHANGED <<fields, compile_result, reflect_result, triangleVars>>

\* lib.rs:231 and lib.rs:239: source_kind.is_some().  The mutant forgets the
\* check, so a later src or path replaces the earlier one.
SourceDefinedMutant == FALSE

SourceDefined == IsSome(source_kind)

\* lib.rs:230-237
ParseSrc ==
    /\ AtField("src")
    /\ IF SourceDefined
       THEN Panic(OnlyOneSource) /\ UNCHANGED source_kind
       ELSE IF Cur.kind # "str"
       THEN SynErr("expected string literal") /\ UNCHANGED source_kind
       ELSE source_kind' = Some([kind |-> "Src", val |-> Cur.val]) /\ Separator
    /\ UNCHANGED <<mod_ident, shader_kind, dump, source_code>>
    /\ UNCHANGED <<fields, compile_result, reflect_result, triangleVars>>

\* lib.rs:238-245
ParsePath ==
    /\ AtField("path")
    /\ IF SourceDefined
       THEN Panic(OnlyOneSource) /\ UNCHANGED source_kind
       ELSE IF Cur.kind # "str"
       THEN SynErr("expected string literal") /\ UNCHANGED source_kind
       ELSE source_kind' = Some([kind |-> "Path", val |-> Cur.val]) /\ Separator
    /\ UNCHANGED <<mod_ident, shader_kind, dump, source_code>>
    /\ UNCHANGED <<fields, compile_result, reflect_result, triangleVars>>

\* lib.rs:246-252
DumpDefined == IsSome(dump)

ParseDump ==
    /\ AtField("dump")
    /\ IF DumpDefined
       THEN Panic(OnlyOneDump) /\ UNCHANGED dump
       ELSE IF Cur.kind # "bool"
       THEN SynErr("expected boolean literal") /\ UNCHANGED dump
       ELSE dump' = Some(Cur.val = "true") /\ Separator
    /\ UNCHANGED <<mod_ident, shader_kind, source_kind, source_code>>
    /\ UNCHANGED <<fields, compile_result, reflect_result, triangleVars>>

\* lib.rs:253, the catch-all arm; the mutant ignores the field instead.
ParseUnknownMutant ==
    /\ InLoop /\ Cur.ident /\ Cur.colon
    /\ Cur.name \notin OptionNames
    /\ Separator
    /\ UNCHANGED <<mod_ident, shader_kind, source_kind, dump, source_code>>
    /\ UNCHANGED <<fields, compile_result, reflect_result, triangleVars>>

ParseUnknown ==
    /\ InLoop /\ Cur.ident /\ Cur.colon
    /\ Cur.name \notin OptionNames
    /\ Panic(UnknownFieldName(Cur.name))
    /\ UNCHANGED <<mod_ident, shader_kind, source_kind, dump, source_code>>
    /\ UNCHANGED <<fields, compile_result, reflect_result, triangleVars>>

\* lib.rs:261-278: the input is empty; the required options, then Ok(MacroInput).
ParseFinish ==
    /\ pc = "parse" /\ pos > Len(fields)
    /\ IF ~IsSome(shader_kind) THEN Panic(PleaseProvideTy)
       ELSE IF ~IsSome(source_kind) THEN Panic(PleaseProvideSource)
       ELSE IF ~IsSome(mod_ident) THEN Panic(PleaseProvideMod)
       ELSE /\ parse_result' = "Ok"
            /\ pc' = "source"
            /\ UNCHANGED <<pos, message, output>>
    /\ UNCHANGED <<mod_ident, shader_kind, source_kind, dump, source_code>>
    /\ UNCHANGED <<fields, compile_result, reflect_result, triangleVars>>

\* MacroInput.dump: dump.unwrap_or(false), lib.rs:276.
DumpValue == IF IsSome(dump) THEN Unwrap(dump) ELSE FALSE

(***************************************************************************)
(* vulkano_shader, lib.rs:283-306, after parse_macro_input!.               *)
(***************************************************************************)
\* A panic of the expansion itself.
ExpandPanic(m) ==
    /\ pc' = "panicked"
    /\ message' = m
    /\ UNCHANGED <<pos, parse_result, output>>

\* lib.rs:286-302.  Whether the path names a file and whether reading it
\* succeeds are the file system's answers.
LoadSource ==
    /\ pc = "source"
    /\ IF Unwrap(source_kind).kind = "Src"
       THEN /\ source_code' = Some(Unwrap(source_kind).val)
            /\ pc' = "compile"
            /\ UNCHANGED <<pos, parse_result, message, output>>
       ELSE \E is_file \in BOOLEAN, read_ok \in BOOLEAN :
              IF ~is_file
              THEN ExpandPanic("File was not found") /\ UNCHANGED source_code
              ELSE IF ~read_ok
              THEN ExpandPanic("Error reading source") /\ UNCHANGED source_code
              ELSE /\ source_code' = Some("contents")
                   /\ pc' = "compile"
                   /\ UNCHANGED <<pos, parse_result, message, output>>
    /\ UNCHANGED <<mod_ident, shader_kind, source_kind, dump>>
    /\ UNCHANGED <<fields, compile_result, reflect_result, triangleVars>>

\* .unwrap() on the Result r of codegen::compile, lib.rs:304: where the
\* expansion goes next.  The mutant carries on after an Err.
AfterCompileMutant(r) == "reflect"

AfterCompile(r) == IF r = "Ok" THEN "reflect" ELSE "panicked"

\* lib.rs:304
Compile ==
    /\ pc = "compile"
    /\ \E r \in {"Ok", "Err"} :
         /\ compile_result' = r
         /\ pc' = AfterCompile(r)
         /\ message' = IF r = "Ok" THEN message ELSE "compile error"
    /\ UNCHANGED <<pos, parse_result, output, reflect_result>>
    /\ UNCHANGED <<mod_ident, shader_kind, source_kind, dump, source_code>>
    /\ UNCHANGED <<fields, triangleVars>>

\* What codegen::reflect can answer: Ok or Err, and with dump: true the
\* generated code is printed and the crate fails to compile (lib.rs:137-139).
ReflectResults == IF DumpValue THEN {"Dumped", "Err"} ELSE {"Ok", "Err"}

\* lib.rs:305
Reflect ==
    /\ pc = "reflect"
    /\ \E r \in ReflectResults :
         /\ reflect_result' = r
         /\ pc' = IF r = "Ok" THEN "returned" ELSE "panicked"
         /\ output' = IF r = "Ok" THEN "generated" ELSE output
         /\ message' = CASE r = "Ok" -> message
                         [] r = "Err" -> "reflect error"
                         [] OTHER -> "dumped"
    /\ UNCHANGED <<pos, parse_result, compile_result>>
    /\ UNCHANGED <<mod_ident, shader_kind, source_kind, dump, source_code>>
    /\ UNCHANGED <<fields, triangleVars>>

NextMacro ==
    \/ ParseSyntaxError
    \/ ParseModName
    \/ ParseTy
    \/ ParseSrc
    \/ ParsePath
    \/ ParseDump
    \/ ParseUnknown
    \/ ParseFinish
    \/ LoadSource
    \/ Compile
    \/ Reflect

SpecMacro == InitMacro /\ [][NextMacro]_vars
SpecTy == InitTy /\ [][NextMacro]_vars

(***************************************************************************)
(* The render loop of main, triangle.rs:145-244.  iteration numbers the    *)
(* passes; the acquire future and the command buffer of a pass are named   *)
(* by its number.  cleanup_finished (triangle.rs:146) releases what the    *)
(* GPU has finished with and leaves the chain of the future as it is.      *)
(***************************************************************************)
Call(c, r, img) == [call |-> c, iteration |-> iteration, result |-> r, image |-> img]

\* `continue`, or the end of the loop body: the next pass.
NextPass == tpc' = "top" /\ iteration' = iteration + 1

\* What the loop does with the result r of recreate_with_dimension,
\* triangle.rs:154-160: "go on", "continue" or "panic".
RecreateArmMutant(r) ==
    CASE r = "Ok" -> "go on"
      [] OTHER -> "panic"

RecreateArm(r) ==
    CASE r = "Ok" -> "go on"
      [] r = "UnsupportedDimensions" -> "continue"
      [] OTHER -> "panic"

\* triangle.rs:148-168.  The size of the window is read first and its unwrap
\* panics when the window has none; the size itself is not followed.
RecreateSwapchain ==
    /\ tpc = "top" /\ iteration <= MaxIterations
    /\ recreate_swapchain
    /\ \E size \in {"Ok", "None"}, r \in {"Ok", "UnsupportedDimensions", "Error"} :
         IF size = "None"
         THEN /\ calls' = Append(calls, Call("inner_size", "None", -1))
              /\ tpc' = "panicked"
              /\ UNCHANGED <<swapchain, framebuffers, recreate_swapchain, iteration>>
         ELSE /\ calls' = calls \o <<Call("inner_size", "Ok", -1), Call("recreate", r, -1)>>
              /\ CASE RecreateArm(r) = "go on" ->
                        /\ swapchain' = swapchain + 1
                        /\ framebuffers' = None
                        /\ recreate_swapchain' = FALSE
                        /\ tpc' = "framebuffers"
                        /\ UNCHANGED iteration
                   [] RecreateArm(r) = "continue" ->
                        /\ NextPass
                        /\ UNCHANGED <<swapchain, framebuffers, recreate_swapchain>>
                   [] OTHER ->
                        /\ tpc' = "panicked"
                        /\ UNCHANGED <<swapchain, framebuffers, recreate_swapchain, iteration>>
    /\ UNCHANGED <<image_num, previous_frame_end, macroVars>>

\* triangle.rs:148: recreate_swapchain is false.
KeepSwapchain ==
    /\ tpc = "top" /\ iteration <= MaxIterations
    /\ ~recreate_swapchain
    /\ tpc' = "framebuffers"
    /\ UNCHANGED <<iteration, recreate_swapchain, framebuffers, swapchain,
                   image_num, previous_frame_end, calls, macroVars>>

\* triangle.rs:170-177; the unwraps panic when the framebuffers cannot be built.
BuildFramebuffers ==
    /\ tpc = "framebuffers"
    /\ IF IsSome(framebuffers)
       THEN tpc' = "acquire" /\ UNCHANGED <<framebuffers, calls>>
       ELSE \E r \in {"Ok", "Error"} :
              /\ calls' = Append(calls, Call("framebuffers", r, -1))
              /\ IF r = "Ok"
                 THEN framebuffers' = Some(swapchain) /\ tpc' = "acquire"
                 ELSE tpc' = "panicked" /\ UNCHANGED framebuffers
    /\ UNCHANGED <<iteration, recreate_swapchain, swapchain, image_num,
                   previous_frame_end, macroVars>>

\* What the loop does with the result r of acquire_next_image,
\* triangle.rs:179-187.
AcquireArm(r) ==
    CASE r = "Ok" -> "go on"
      [] r = "OutOfDate" -> "continue"
      [] OTHER -> "panic"

\* triangle.rs:179-187
AcquireNextImage ==
    /\ tpc = "acquire"
    /\ \E r \in {"Ok", "OutOfDate", "Error"}, n \in 0..(NumImages - 1) :
         /\ calls' = Append(calls, Call("acquire", r, IF r = "Ok" THEN n ELSE -1))
         /\ CASE AcquireArm(r) = "go on" ->
                   /\ image_num' = n
                   /\ tpc' = "record"
                   /\ UNCHANGED <<recreate_swapchain, iteration>>
              [] AcquireArm(r) = "continue" ->
                   /\ recreate_swapchain' = TRUE
                   /\ NextPass
                   /\ UNCHANGED image_num
              [] OTHER ->
                   /\ tpc' = "panicked"
                   /\ UNCHANGED <<recreate_swapchain, iteration, image_num>>
    /\ UNCHANGED <<framebuffers, swapchain, previous_frame_end, macroVars>>

\* The methods of GpuFuture used at triangle.rs:229-233.
Join(first, acquire) == Append(first, [op |-> "join", arg |-> acquire])
ThenExecute(f, command_buffer) == Append(f, [op |-> "execute", arg |-> command_buffer])
ThenSwapchainPresent(f, image) == Append(f, [op |-> "present", arg |-> image])
ThenSignalFenceAndFlush(f, k) == Append(f, [op |-> "fence", arg |-> k])

\* triangle.rs:229-233: the future of pass k, which acquired image n, after
\* the future prev.  The mutant presents before it executes.
FrameFutureMutant(prev, k, n) ==
    ThenSignalFenceAndFlush(
        ThenExecute(ThenSwapchainPresent(Join(prev, k), n), k), k)

FrameFuture(prev, k, n) ==
    ThenSignalFenceAndFlush(
        ThenSwapchainPresent(ThenExecute(Join(prev, k), k), n), k)

\* triangle.rs:189-234: the command buffer is recorded and the frame
\* submitted; an unwrap panics when a call fails.
SubmitFrame ==
    /\ tpc = "record"
    /\ \E r \in {"Ok", "Error"} :
         /\ calls' = Append(calls, Call("submit", r, image_num))
         /\ IF r = "Ok"
            THEN /\ previous_frame_end' = FrameFuture(previous_frame_end, iteration, image_num)
                 /\ tpc' = "poll"
            ELSE /\ tpc' = "panicked"
                 /\ UNCHANGED previous_frame_end
    /\ UNCHANGED <<iteration, recreate_swapchain, framebuffers, swapchain,
                   image_num, macroVars>>

\* triangle.rs:236-243
PollEvents ==
    /\ tpc = "poll"
    /\ \E done \in BOOLEAN :
         IF done THEN tpc' = "exited" /\ UNCHANGED iteration ELSE NextPass
    /\ UNCHANGED <<recreate_swapchain, framebuffers, swapchain, image_num,
                   previous_frame_end, calls, macroVars>>

NextTriangle ==
    \/ RecreateSwapchain
    \/ KeepSwapchain
    \/ BuildFramebuffers
    \/ AcquireNextImage
    \/ SubmitFrame
    \/ PollEvents

\* main at the loop; the macro is not running and has no input.
InitRenderLoop ==
    /\ InitTriangle
    /\ fields = <<>>
    /\ InitMacroState

SpecTriangle == InitRenderLoop /\ [][NextTriangle]_vars

(***************************************************************************)
(* Properties of the option parser and of the expansion.                   *)
(***************************************************************************)
\* Field i is a field named n: the identifier n followed by a colon.
Named(i, n) == fields[i].ident /\ fields[i].colon /\ fields[i].name = n

\* parse has returned or panicked.
ParseOver == parse_result # "Pending"

\* Two option names that cannot both be given: the same one, or src and path.
Exclusive(a, b) == a = b \/ {a, b} = {"src", "path"}

\* Field j gives an option that an earlier field has given.
Repeats(j) ==
    /\ fields[j].name \in OptionNames /\ Named(j, fields[j].name)
    /\ \E i \in 1..(j - 1) :
         /\ fields[i].name \in OptionNames /\ Named(i, fields[i].name)
         /\ Exclusive(fields[i].name, fields[j].name)

HasRepeat == \E j \in 1..Len(fields) : Repeats(j)
FirstRepeat ==
    CHOOSE j \in 1..Len(fields) : Repeats(j) /\ \A k \in 1..(j - 1) : ~Repeats(k)

OnlyOneMessage(n) ==
    CASE n = "mod_name" -> OnlyOneMod
      [] n = "ty" -> OnlyOneTy
      [] n \in {"src", "path"} -> OnlyOneSource
      [] n = "dump" -> OnlyOneDump

\* C1 as claimed: whatever the field list, once parsing is over an input in
\* which an option is given a second time (src and path counting as one
\* option), it has ended in the matching "Only one ... can be defined" panic
\* at that second occurrence.
C1_PanicsAtRepeatInAnyInput ==
    (ParseOver /\ HasRepeat) =>
        /\ parse_result = "Panic"
        /\ pos = FirstRepeat
        /\ message = OnlyOneMessage(fields[FirstRepeat].name)

\* C1 as amended: an input in which an option is given a second time never
\* yields a MacroInput and the parser never gets past the second occurrence;
\* when parsing ends at the second occurrence it is with the matching "Only
\* one ... can be defined" panic; otherwise it has ended at an earlier field.
C1_RepeatNeverAccepted ==
    HasRepeat =>
        /\ parse_result # "Ok"
        /\ pos <= FirstRepeat
        /\ (ParseOver /\ pos = FirstRepeat) =>
              /\ parse_result = "Panic"
              /\ message = OnlyOneMessage(fields[FirstRepeat].name)

\* A src given after a path, refused at the src.
C1_Witness ==
    /\ HasRepeat /\ ParseOver /\ pos = FirstRepeat
    /\ message = OnlyOneSource
    /\ fields[pos].name = "src"
    /\ \E i \in 1..(pos - 1) : Named(i, "path")

\* The shader types of the documentation (lib.rs:116-123) and their kinds.
ValidTypes == {"vertex", "fragment", "geometry", "tess_ctrl", "tess_eval", "compute"}
KindOfType(t) ==
    CASE t = "vertex" -> "Vertex"
      [] t = "fragment" -> "Fragment"
      [] t = "geometry" -> "Geometry"
      [] t = "tess_ctrl" -> "TessControl"
      [] t = "tess_eval" -> "TessEvaluation"
      [] t = "compute" -> "Compute"

TyFields == {i \in 1..Len(fields) : Named(i, "ty")}
\* Field i gives ty a string that is none of the six.
BadTy(i) == Named(i, "ty") /\ fields[i].kind = "str" /\ fields[i].val \notin ValidTypes
\* Field i gives ty one of the six strings.
GoodTy(i) == Named(i, "ty") /\ fields[i].kind = "str" /\ fields[i].val \in ValidTypes

\* The part of C2 that holds as claimed and as amended: a successful parse was
\* given exactly one ty, one of the six strings, and its shader_kind is the
\* kind of that string.
SuccessHasKindOfSingleTy ==
    parse_result = "Ok" =>
        \E i \in TyFields :
            /\ TyFields = {i}
            /\ GoodTy(i)
            /\ shader_kind = Some(KindOfType(fields[i].val))

\* C2 as claimed: a ty given any string other than the six ends parsing in
\* the "Unexpected shader type" panic, and a successful parse has the kind of
\* the single ty given.
C2_BadTyAlwaysUnexpectedPanic ==
    /\ (ParseOver /\ \E i \in 1..Len(fields) : BadTy(i)) =>
          /\ parse_result = "Panic"
          /\ message = UnexpectedShaderType
    /\ SuccessHasKindOfSingleTy

\* C2 as amended: the first ty of the input, once the parser is past it, has
\* set shader_kind to the kind of its string, which is one of the six; a ty
\* given any other string never yields a MacroInput, the parser never gets
\* past it, and when parsing ends at it, it is with the "Unexpected shader
\* type" panic if it is the first ty and with "Only one ty" if it is not;
\* a successful parse has the kind of the single ty given.
C2_TyAcceptsExactlySix ==
    /\ \A i \in 1..Len(fields) :
          (Named(i, "ty") /\ pos > i /\ \A k \in 1..(i - 1) : ~Named(k, "ty")) =>
              /\ GoodTy(i)
              /\ shader_kind = Some(KindOfType(fields[i].val))
    /\ \A i \in 1..Len(fields) :
          BadTy(i) =>
              /\ parse_result # "Ok"
              /\ pos <= i
              /\ (ParseOver /\ pos = i) =>
                    /\ parse_result = "Panic"
                    /\ message = IF \E k \in 1..(i - 1) : Named(k, "ty")
                                 THEN OnlyOneTy ELSE UnexpectedShaderType
    /\ SuccessHasKindOfSingleTy

\* ty: "Vertex" after a well-formed field, refused for its case.
C2_Witness ==
    /\ ParseOver /\ Len(fields) >= 2 /\ pos = 2 /\ BadTy(2) /\ fields[2].val = "Vertex"
    /\ parse_result = "Panic" /\ message = UnexpectedShaderType

\* Field k is a field whose name is none of the five options.
Unknown(k) == fields[k].name \notin OptionNames /\ Named(k, fields[k].name)
HasUnknown == \E k \in 1..Len(fields) : Unknown(k)
FirstUnknown ==
    CHOOSE k \in 1..Len(fields) : Unknown(k) /\ \A h \in 1..(k - 1) : ~Unknown(h)

\* The five options never end parsing in "Unknown field name".
OptionsAreKnown ==
    (parse_result = "Panic" /\ pos <= Len(fields) /\ fields[pos].name \in OptionNames) =>
        message # UnknownFieldName(fields[pos].name)

\* C3 as claimed: wherever a field of another name stands and whatever the
\* other fields are, parsing ends in the "Unknown field name" panic.
C3_UnknownAlwaysUnknownPanic ==
    /\ (ParseOver /\ HasUnknown) =>
          /\ parse_result = "Panic"
          /\ message = UnknownFieldName(fields[FirstUnknown].name)
    /\ OptionsAreKnown

\* C3 as amended: an input with a field of another name never yields a
\* MacroInput and the parser never gets past that field; when parsing ends
\* at it, it is with the "Unknown field name" panic; otherwise it has ended
\* at an earlier field.  The five options never end in that panic.
C3_UnknownNeverAccepted ==
    /\ HasUnknown =>
          /\ parse_result # "Ok"
          /\ pos <= FirstUnknown
          /\ (ParseOver /\ pos = FirstUnknown) =>
                /\ parse_result = "Panic"
                /\ message = UnknownFieldName(fields[FirstUnknown].name)
    /\ OptionsAreKnown

\* foo after every required option, refused.
C3_Witness ==
    /\ ParseOver /\ HasUnknown /\ pos = FirstUnknown /\ pos = 4
    /\ IsSome(mod_ident) /\ IsSome(shader_kind) /\ IsSome(source_kind)
    /\ message = UnknownFieldName("foo")

\* An error of compile or reflect ends the expansion in a panic with that
\* error, and reflect is not called unless compile returned Ok.
ErrorsAbort ==
    /\ compile_result = "Err" =>
          pc = "panicked" /\ message = "compile error" /\ reflect_result = "NotCalled"
    /\ reflect_result = "Err" => pc = "panicked" /\ message = "reflect error"
    /\ reflect_result # "NotCalled" => compile_result = "Ok"

\* C5 as claimed: vulkano_shader returns a token stream only if compile and
\* reflect both returned Ok, and an error of either ends the expansion with
\* that error before the later step runs.
C5_ReturnsOnlyIfBothOk ==
    /\ output # "none" => (compile_result = "Ok" /\ reflect_result = "Ok")
    /\ ErrorsAbort

\* C5 as amended: vulkano_shader returns the generated code only if compile
\* and reflect both returned Ok; the only other token stream it returns is
\* the compile_error! of an option list that failed to parse, returned before
\* either is called; an error of either ends the expansion with that error
\* before the later step runs.
C5_GeneratedOnlyIfBothOk ==
    /\ output = "generated" => (compile_result = "Ok" /\ reflect_result = "Ok")
    /\ output = "compile_error" =>
          /\ parse_result = "Err"
          /\ compile_result = "NotCalled" /\ reflect_result = "NotCalled"
    /\ pc = "returned" <=> output # "none"
    /\ ErrorsAbort

\* compile failed: the expansion panicked and reflect was not called.
C5_Witness ==
    /\ compile_result = "Err" /\ pc = "panicked" /\ reflect_result = "NotCalled"
    /\ output = "none"

(***************************************************************************)
(* Properties of the render loop.                                          *)
(***************************************************************************)
\* Call i of the log returned an error.
Failed(i) == calls[i].result # "Ok"

\* C4 as claimed: a native call that returned an error is not made again in
\* a later pass of the loop.
C4_FailedCallNeverRepeated ==
    \A i \in 1..Len(calls) : \A j \in (i + 1)..Len(calls) :
        Failed(i) => calls[j].call # calls[i].call

\* C4 as amended: the loop tries again in exactly two cases.  After a
\* recreation refused with UnsupportedDimensions, and after an acquisition
\* that found the swapchain OutOfDate, main does not panic, recreate_swapchain
\* is set, and the next pass reads the size of the window and, having it,
\* calls the recreation again.  Any other failure is the last call made:
\* main panics.
C4_RetriesOnlyRecoverable ==
    \A i \in 1..Len(calls) :
        /\ (Failed(i) /\ calls[i].result \notin {"UnsupportedDimensions", "OutOfDate"}) =>
              i = Len(calls) /\ tpc = "panicked"
        /\ (Failed(i) /\ calls[i].result \in {"UnsupportedDimensions", "OutOfDate"}) =>
              /\ i = Len(calls) =>
                    /\ tpc = "top"
                    /\ recreate_swapchain
                    /\ iteration = calls[i].iteration + 1
              /\ i < Len(calls) =>
                    /\ calls[i + 1].call = "inner_size"
                    /\ calls[i + 1].iteration = calls[i].iteration + 1
                    /\ calls[i + 1].result = "Ok" =>
                          /\ i + 2 <= Len(calls)
                          /\ calls[i + 2].call = "recreate"
                          /\ calls[i + 2].iteration = calls[i + 1].iteration
        /\ calls[i].result = "UnsupportedDimensions" => calls[i].call = "recreate"
        /\ calls[i].result = "OutOfDate" => calls[i].call = "acquire"

\* An acquisition found the swapchain out of date, the recreation of the
\* next pass was refused, and the pass after that recreated it and acquired
\* an image.
C4_Witness ==
    /\ Len(calls) >= 8
    /\ calls[Len(calls) - 7].call = "acquire" /\ calls[Len(calls) - 7].result = "OutOfDate"
    /\ calls[Len(calls) - 5].call = "recreate"
    /\ calls[Len(calls) - 5].result = "UnsupportedDimensions"
    /\ calls[Len(calls) - 3].call = "recreate" /\ calls[Len(calls) - 3].result = "Ok"
    /\ calls[Len(calls) - 1].call = "acquire" /\ calls[Len(calls) - 1].result = "Ok"
    /\ calls[Len(calls)].call = "submit" /\ calls[Len(calls)].result = "Ok"

\* The operations of the frame of pass k, which acquired image n, in order.
FrameOps(k, n) ==
    <<[op |-> "join", arg |-> k], [op |-> "execute", arg |-> k],
      [op |-> "present", arg |-> n], [op |-> "fence", arg |-> k]>>

\* The submissions of the log that succeeded, in order.
Submissions == SelectSeq(calls, LAMBDA c : c.call = "submit" /\ c.result = "Ok")

RECURSIVE ChainOfFrames(_)
ChainOfFrames(subs) ==
    IF subs = <<>> THEN Now
    ELSE ChainOfFrames(SubSeq(subs, 1, Len(subs) - 1))
            \o FrameOps(subs[Len(subs)].iteration, subs[Len(subs)].image)

\* C6: previous_frame_end chains, after now(), the frames of the passes that
\* submitted and nothing else, one after the other in the order of the
\* passes; in each, the execution follows the join of what came before with
\* the acquire future of that pass, the presentation of the image that pass
\* acquired follows the execution, and the fence comes last.  A pass that
\* continues without submitting adds nothing to it.
C6_FramesChainedInOrder ==
    /\ previous_frame_end = ChainOfFrames(Submissions)
    /\ \A i \in 1..Len(calls) :
          (calls[i].call = "submit") =>
              /\ i > 1
              /\ calls[i - 1].call = "acquire" /\ calls[i - 1].result = "Ok"
              /\ calls[i - 1].iteration = calls[i].iteration
              /\ calls[i - 1].image = calls[i].image
    /\ \A i \in 1..Len(Submissions) : \A j \in (i + 1)..Len(Submissions) :
          Submissions[i].iteration < Submissions[j].iteration

\* Two frames submitted with a pass between them that continued.
C6_Witness ==
    /\ Len(Submissions) = 2
    /\ Submissions[2].iteration > Submissions[1].iteration + 1
    /\ Len(previous_frame_end) = 9
====
